---- MODULE Spec2Model ----
(***************************************************************************)
(* A model of stack-stack's Stack<T, N> (src/src/lib.rs): a fixed-capacity *)
(* array of MaybeUninit<T> slots plus a length, and its consuming iterator *)
(* IntoIter<T, N>.                                                         *)
(*                                                                         *)
(* A value of type T is a record [id, v]: v is what the value compares     *)
(* equal by, id tells one owned value from another (a clone has the        *)
(* same v and a new id).  A slot holds the bytes of a value; reading a     *)
(* slot (assume_init_read, copy_nonoverlapping) copies the bytes and       *)
(* leaves them behind.  Who owns a value is not in the bytes: the ghost    *)
(* counters `handed` and `dropped` count, per id, how often the value was  *)
(* given to the caller and how often its destructor ran.                   *)
(***************************************************************************)
EXTENDS Integers, Sequences, FiniteSets, TLC

\* ------------------------------------------------------------- bounds
\* Largest capacity N (and M of resize_capacity) explored.
MaxCap == 2
\* Number of owned values created in one behaviour.
MaxIds == 3
\* Longest slice or iterator given to extend_from_slice / extend_from_iter.
MaxSlice == 2

\* The contents a value can have.  The methods never look inside a T (they
\* move it, clone it and drop it), so two contents are enough to tell the
\* clone of one value from the clone of another.
Vals == {1, 2}
Ids == 1..MaxIds

\* usize arithmetic wraps modulo 2^w in a release build; w is shortened from
\* 64 so that the numbers stay inside the model checker's integers.
UsizeModulus == 2^16

\* ------------------------------------------------------------- values
\* The bytes of a slot that was never written (MaybeUninit::uninit()).
Uninit == [id |-> 0, v |-> 0]

Value(i, c) == [id |-> i, v |-> c]

Min(a, b) == IF a < b THEN a ELSE b

\* The contents of a sequence of values.
Contents(s) == [k \in 1..Len(s) |-> s[k].v]

\* The ids of a sequence of values.
IdsOf(s) == [k \in 1..Len(s) |-> s[k].id]

\* Option<T> / Result<(), T> as a record: a tag and the values it carries.
\* n carries a usize result.
None == [kind |-> "None", vals |-> <<>>, n |-> 0]
Some(x) == [kind |-> "Some", vals |-> <<x>>, n |-> 0]
Ok == [kind |-> "Ok", vals |-> <<>>, n |-> 0]
Err(xs) == [kind |-> "Err", vals |-> xs, n |-> 0]
Ret(x) == [kind |-> "value", vals |-> <<x>>, n |-> 0]
Usize(k) == [kind |-> "usize", vals |-> <<>>, n |-> k]
Unit == [kind |-> "unit", vals |-> <<>>, n |-> 0]
\* An unwinding panic, and a non-unwinding one (the process ends).
Panic == [kind |-> "panic", vals |-> <<>>, n |-> 0]
Abort == [kind |-> "abort", vals |-> <<>>, n |-> 0]

\* T::clone: the same content in a new owned value.
clone(x, i) == Value(i, x.v)

\* What dropping the values xs destroys: nothing runs for a T without drop glue.
drop_all(xs, nd) == IF nd THEN xs ELSE <<>>

\* ------------------------------------------------------------- Stack<T, N>
\* A stack is a record [N, len, data], data a function on 0..N-1.

new(n) == [N |-> n, len |-> 0, data |-> [i \in 0..(n - 1) |-> Uninit]]

from_array(array) ==
    [N |-> Len(array), len |-> Len(array),
     data |-> [i \in 0..(Len(array) - 1) |-> array[i + 1]]]

capacity(self) == self.N

is_empty(self) == self.len = 0

is_full(self) == self.len >= capacity(self)

\* The initialized prefix, as a sequence.
as_slice(self) == [k \in 1..self.len |-> self.data[k - 1]]

\* push as it would be if a full stack swallowed the value.
push_discard(self, x) ==
    IF is_full(self) THEN [self |-> self, ret |-> Ok]
    ELSE [self |-> [self EXCEPT !.data[self.len] = x, !.len = self.len + 1],
          ret |-> Ok]

\* Result<(), T>: a full stack hands x back.
push(self, x) ==
    IF is_full(self) THEN [self |-> self, ret |-> Err(<<x>>)]
    ELSE [self |-> [self EXCEPT !.data[self.len] = x, !.len = self.len + 1],
          ret |-> Ok]

\* pop as it would be if it read the first slot in place of the last.
pop_first(self) ==
    IF is_empty(self) THEN [self |-> self, ret |-> None]
    ELSE [self |-> [self EXCEPT !.len = self.len - 1], ret |-> Some(self.data[0])]

pop(self) ==
    IF is_empty(self) THEN [self |-> self, ret |-> None]
    ELSE [self |-> [self EXCEPT !.len = self.len - 1],
          ret |-> Some(self.data[self.len - 1])]

\* truncate: with drop glue, pops down to the target and drops each popped
\* value; without, sets the length.  `drops` lists the values destroyed.
RECURSIVE truncate_loop(_, _, _)
truncate_loop(self, target, drops) ==
    IF self.len > target
    THEN truncate_loop(pop(self).self, target, drops \o pop(self).ret.vals)
    ELSE [self |-> self, drops |-> drops]

\* truncate as it would be if it set the length whatever the element type.
truncate_set_len(self, n, nd) ==
    [self |-> [self EXCEPT !.len = Min(self.len, n)], drops |-> <<>>]

truncate(self, n, nd) ==
    LET target == Min(self.len, n) IN
    IF nd THEN truncate_loop(self, target, <<>>)
    ELSE [self |-> [self EXCEPT !.len = target], drops |-> <<>>]

\* check_bounds / check_capacity: TRUE when the check passes (no panic).
check_bounds(self, index) == ~(index >= self.len)

check_capacity(self, size) == ~(size > capacity(self))

\* clear as it would be without `self.len = 0`.
clear_keep_len(self, nd) ==
    [self |-> self, drops |-> IF nd THEN as_slice(self) ELSE <<>>]

\* clear as it would be if it only reset the length.
clear_forget(self, nd) == [self |-> [self EXCEPT !.len = 0], drops |-> <<>>]

clear(self, nd) ==
    [self |-> [self EXCEPT !.len = 0],
     drops |-> IF nd THEN as_slice(self) ELSE <<>>]

\* using_array panics when len > N (the array is dropped by the unwinding);
\* otherwise from_array followed by truncate(len).
\* using_array_unchecked as it would be if it forgot the values past len.
using_array_forget(array, n, nd) == truncate(from_array(array), n, FALSE)

using_array_unchecked(array, n, nd) == truncate(from_array(array), n, nd)

using_array(array, n, nd) ==
    IF n > Len(array)
    THEN [self |-> new(0), ret |-> Panic, drops |-> drop_all(array, nd)]
    ELSE [self |-> using_array_unchecked(array, n, nd).self, ret |-> Unit,
          drops |-> using_array_unchecked(array, n, nd).drops]

\* swap_remove: reads data[index], decrements len, copies data[len] over
\* data[index] with copy_nonoverlapping.  For index = len - 1 source and
\* destination are the same slot, which copy_nonoverlapping forbids: a build
\* with debug assertions stops the process there, any other leaves the
\* bytes as they are.  The result is the set of possible outcomes.
swap_remove(self, index) ==
    IF ~check_bounds(self, index) THEN {[self |-> self, ret |-> Panic]}
    ELSE LET ret == self.data[index]
             s1 == [self EXCEPT !.len = self.len - 1]
         IN IF index = s1.len
            THEN {[self |-> s1, ret |-> Ret(ret)], [self |-> s1, ret |-> Abort]}
            ELSE {[self |-> [s1 EXCEPT !.data[index] = s1.data[s1.len]],
                   ret |-> Ret(ret)]}

\* The loop of insert: for i in index..len { swap(&mut data[i], &mut temp) }.
RECURSIVE insert_loop(_, _, _)
insert_loop(self, i, temp) ==
    IF i < self.len
    THEN insert_loop([self EXCEPT !.data[i] = temp], i + 1, self.data[i])
    ELSE [self |-> self, temp |-> temp]

\* insert as it would be if it overwrote the slot at index and moved only the
\* overwritten element to the end, without shifting the ones in between.
insert_overwrite(self, index, element, nd) ==
    IF ~check_bounds(self, index)
    THEN [self |-> self, ret |-> Panic, drops |-> drop_all(<<element>>, nd)]
    ELSE LET s1 == [self EXCEPT !.data[index] = element]
             temp == self.data[index]
         IN IF is_full(s1)
            THEN [self |-> s1, ret |-> Some(temp), drops |-> <<>>]
            ELSE [self |-> [s1 EXCEPT !.data[s1.len] = temp, !.len = s1.len + 1],
                  ret |-> None, drops |-> <<>>]

\* insert: a panic drops the element it was given.
insert(self, index, element, nd) ==
    IF ~check_bounds(self, index)
    THEN [self |-> self, ret |-> Panic, drops |-> drop_all(<<element>>, nd)]
    ELSE LET r == insert_loop(self, index, element) IN
         IF is_full(r.self)
         THEN [self |-> r.self, ret |-> Some(r.temp), drops |-> <<>>]
         ELSE [self |-> [r.self EXCEPT !.data[r.self.len] = r.temp,
                                       !.len = r.self.len + 1],
               ret |-> None, drops |-> <<>>]

\* The loop of remove: for i in index+1..len { data[i-1] <- data[i] }.
RECURSIVE remove_loop(_, _)
remove_loop(self, i) ==
    IF i < self.len
    THEN remove_loop([self EXCEPT !.data[i - 1] = self.data[i]], i + 1)
    ELSE self

\* remove as it would be if an out-of-range index were found only after the
\* length had been reset.
remove_late_check(self, index) ==
    IF ~check_bounds(self, index)
    THEN [self |-> [self EXCEPT !.len = 0], ret |-> Panic]
    ELSE [self |-> [remove_loop(self, index + 1) EXCEPT !.len = self.len - 1],
          ret |-> Ret(self.data[index])]

\* remove as it would be if it took the last element whatever the index.
remove_last(self, index) ==
    IF ~check_bounds(self, index) THEN [self |-> self, ret |-> Panic]
    ELSE [self |-> [self EXCEPT !.len = self.len - 1],
          ret |-> Ret(self.data[self.len - 1])]

\* remove as it would be without the loop that closes the gap.
remove_no_shift(self, index) ==
    IF ~check_bounds(self, index) THEN [self |-> self, ret |-> Panic]
    ELSE [self |-> [self EXCEPT !.len = self.len - 1], ret |-> Ret(self.data[index])]

\* remove as it would be without `self.len -= 1`.
remove_keep_len(self, index) ==
    IF ~check_bounds(self, index) THEN [self |-> self, ret |-> Panic]
    ELSE [self |-> remove_loop(self, index + 1), ret |-> Ret(self.data[index])]

remove(self, index) ==
    IF ~check_bounds(self, index) THEN [self |-> self, ret |-> Panic]
    ELSE LET s1 == remove_loop(self, index + 1) IN
         [self |-> [s1 EXCEPT !.len = s1.len - 1], ret |-> Ret(self.data[index])]

\* resize_with: f is the sequence of values the successive calls of the
\* closure return; `calls` counts the calls made.
RECURSIVE resize_with_loop(_, _, _, _)
resize_with_loop(self, new_len, f, calls) ==
    IF self.len < new_len
    THEN resize_with_loop(push(self, f[calls + 1]).self, new_len, f, calls + 1)
    ELSE [self |-> self, ret |-> Unit, drops |-> <<>>, calls |-> calls]

\* resize_with as it would be if a smaller new_len were ignored.
resize_with_no_truncate(self, new_len, f, nd) ==
    IF ~check_capacity(self, new_len)
    THEN [self |-> self, ret |-> Panic, drops |-> <<>>, calls |-> 0]
    ELSE resize_with_loop(self, new_len, f, 0)

resize_with(self, new_len, f, nd) ==
    IF ~check_capacity(self, new_len)
    THEN [self |-> self, ret |-> Panic, drops |-> <<>>, calls |-> 0]
    ELSE IF new_len < self.len
    THEN [self |-> truncate(self, new_len, nd).self, ret |-> Unit,
          drops |-> truncate(self, new_len, nd).drops, calls |-> 0]
    ELSE resize_with_loop(self, new_len, f, 0)

\* resize: the closure clones x; ids are the ids the clones get.
resize(self, new_len, x, ids, nd) ==
    resize_with(self, new_len, [k \in 1..Len(ids) |-> clone(x, ids[k])], nd)

\* extend_from_slice: clones the first element and pushes the clone; a
\* rejected clone is dropped and the slice not yet consumed is returned.
RECURSIVE extend_from_slice_loop(_, _, _, _, _)
extend_from_slice_loop(self, other, ids, calls, nd) ==
    IF other = <<>>
    THEN [self |-> self, ret |-> Ok, drops |-> <<>>, calls |-> calls]
    ELSE LET r == push(self, clone(Head(other), ids[calls + 1])) IN
         IF r.ret.kind = "Err"
         THEN [self |-> self, ret |-> Err(other),
               drops |-> drop_all(r.ret.vals, nd), calls |-> calls + 1]
         ELSE extend_from_slice_loop(r.self, Tail(other), ids, calls + 1, nd)

\* extend_from_slice as it would be if the rejected element were left out
\* of the returned remainder (Err(rest) in place of Err(other)).
extend_from_slice_skip(self, other, ids, nd) ==
    LET r == extend_from_slice_loop(self, other, ids, 0, nd) IN
    [r EXCEPT !.ret = IF r.ret.kind = "Err" THEN Err(Tail(r.ret.vals)) ELSE r.ret]

extend_from_slice(self, other, ids, nd) ==
    extend_from_slice_loop(self, other, ids, 0, nd)

\* extend_from_iter as it would be if it called iter.next() before the
\* fullness test: the element taken from a sequence that does not fit is lost.
RECURSIVE extend_from_iter_eager(_, _)
extend_from_iter_eager(self, iter) ==
    IF iter = <<>> THEN [self |-> self, ret |-> Ok]
    ELSE IF is_full(self) THEN [self |-> self, ret |-> Err(Tail(iter))]
    ELSE extend_from_iter_eager(push(self, Head(iter)).self, Tail(iter))

\* extend_from_iter: iter is the sequence of values the iterator has yet to
\* yield; the fullness test comes before the call of iter.next().
RECURSIVE extend_from_iter(_, _)
extend_from_iter(self, iter) ==
    IF is_full(self) THEN [self |-> self, ret |-> Err(iter)]
    ELSE IF iter # <<>>
    THEN extend_from_iter(push(self, Head(iter)).self, Tail(iter))
    ELSE [self |-> self, ret |-> Ok]

\* ------------------------------------------------------------- IntoIter<T, N>
\* An iterator is a record [index, stack].

into_iter(self) == [index |-> 0, stack |-> self]

next(it) ==
    IF it.index >= it.stack.len THEN [it |-> it, ret |-> None]
    ELSE [it |-> [it EXCEPT !.index = it.index + 1],
          ret |-> Some(it.stack.data[it.index])]

next_back(it) ==
    [it |-> [it EXCEPT !.stack = pop(it.stack).self], ret |-> pop(it.stack).ret]

\* remaining: stack.len() - index in usize.  When index > len the
\* subtraction overflows: a panic with overflow checks, a wrapped number
\* without.  The result is the set of possible outcomes.
remaining(it) ==
    IF it.stack.len - it.index >= 0 THEN {Usize(it.stack.len - it.index)}
    ELSE {Panic, Usize((it.stack.len - it.index) % UsizeModulus)}

\* Dropping an IntoIter drops its stack: Drop for Stack is clear().
drop_stack(self, nd) == clear(self, nd)

drop_into_iter(it, nd) == drop_stack(it.stack, nd)

\* resize_capacity: for x in self { if new.push(x).is_err() { break } }, the
\* rejected x dropped with the Result, then the iterator dropped.
RECURSIVE resize_capacity_loop(_, _, _)
resize_capacity_loop(it, nw, nd) ==
    LET r == next(it) IN
    IF r.ret.kind = "None"
    THEN [self |-> nw, drops |-> drop_into_iter(r.it, nd).drops]
    ELSE LET p == push(nw, r.ret.vals[1]) IN
         IF p.ret.kind = "Err"
         THEN [self |-> nw,
               drops |-> drop_all(p.ret.vals, nd) \o drop_into_iter(r.it, nd).drops]
         ELSE resize_capacity_loop(r.it, p.self, nd)

resize_capacity(self, M, nd) == resize_capacity_loop(into_iter(self), new(M), nd)

\* ------------------------------------------------------------- state
VARIABLES
    phase,       \* "start": nothing built yet; "stack": a Stack is alive;
                 \* "iter": it was moved into an IntoIter; "dropped": the stack
                 \* or the iterator was dropped; "aborted": the process ended
    N,           \* the capacity of the stack (the const generic N)
    len,         \* Stack::len
    data,        \* Stack::data, a function on 0..N-1
    index,       \* IntoIter::index
    needs_drop,  \* needs_drop::<T>(): whether T has drop glue
    nextId,      \* the id the next created value gets
    dropped,     \* ghost: per id, how often the value was destroyed (0, 1, 2 = more)
    handed,      \* ghost: per id, how often the value was given to the caller
    last         \* the last call: its name, arguments and result

vars == <<phase, N, len, data, index, needs_drop, nextId, dropped, handed, last>>

\* The live stack as a record, and the iterator holding it.
Self == [N |-> N, len |-> len, data |-> data]

Iter == [index |-> index, stack |-> Self]

SetSelf(s) == N' = s.N /\ len' = s.len /\ data' = s.data

Occurs(xs, i) == Cardinality({k \in 1..Len(xs) : xs[k].id = i})

\* The ghost counters after the values `drops` were destroyed and the values
\* `hands` were given to the caller.
Account(drops, hands) ==
    /\ dropped' = [i \in Ids |-> Min(2, dropped[i] + Occurs(drops, i))]
    /\ handed' = [i \in Ids |-> Min(2, handed[i] + Occurs(hands, i))]

Call(op, i, arg, ret) == [op |-> op, index |-> i, arg |-> arg, ret |-> ret]

\* k fresh ids are available.
Fresh(k) == nextId + k - 1 <= MaxIds

\* The sequence of ids nextId, nextId + 1, ... of length k.
FreshIds(k) == [j \in 1..k |-> nextId + j - 1]

\* All sequences over S of length at most n.
SeqUpTo(S, n) == UNION {[1..k -> S] : k \in 0..n}

Init ==
    /\ phase = "start"
    /\ N = 0
    /\ len = 0
    /\ data = <<>>
    /\ index = 0
    /\ needs_drop \in BOOLEAN
    /\ nextId = 1
    /\ dropped = [i \in Ids |-> 0]
    /\ handed = [i \in Ids |-> 0]
    /\ last = Call("none", 0, <<>>, Unit)

\* ------------------------------------------------------------- constructors
New ==
    /\ phase = "start"
    /\ \E n \in 0..MaxCap :
        /\ SetSelf(new(n))
        /\ last' = Call("new", n, <<>>, Unit)
    /\ phase' = "stack"
    /\ UNCHANGED <<index, needs_drop, nextId, dropped, handed>>

FromArray ==
    /\ phase = "start"
    /\ \E cs \in SeqUpTo(Vals, MaxCap) :
        LET array == [k \in 1..Len(cs) |-> Value(nextId + k - 1, cs[k])] IN
        /\ Fresh(Len(cs))
        /\ SetSelf(from_array(array))
        /\ nextId' = nextId + Len(cs)
        /\ last' = Call("from_array", 0, array, Unit)
    /\ phase' = "stack"
    /\ UNCHANGED <<index, needs_drop, dropped, handed>>

UsingArray ==
    /\ phase = "start"
    /\ \E cs \in SeqUpTo(Vals, MaxCap), n \in 0..(MaxCap + 1) :
        LET array == [k \in 1..Len(cs) |-> Value(nextId + k - 1, cs[k])] IN
        \E r \in {using_array(array, n, needs_drop)} :
        /\ Fresh(Len(cs))
        /\ n <= Len(cs) + 1
        /\ nextId' = nextId + Len(cs)
        /\ last' = Call("using_array", n, array, r.ret)
        /\ Account(r.drops, <<>>)
        /\ IF r.ret.kind = "panic"
           THEN phase' = "start" /\ UNCHANGED <<N, len, data>>
           ELSE phase' = "stack" /\ SetSelf(r.self)
    /\ UNCHANGED <<index, needs_drop>>

\* ------------------------------------------------------------- Stack methods
Push ==
    /\ phase = "stack"
    /\ Fresh(1)
    /\ \E c \in Vals :
        LET x == Value(nextId, c) IN
        \E r \in {push(Self, x)} :
        /\ SetSelf(r.self)
        /\ Account(<<>>, r.ret.vals)
        /\ last' = Call("push", 0, <<x>>, r.ret)
    /\ nextId' = nextId + 1
    /\ UNCHANGED <<phase, index, needs_drop>>

Pop ==
    /\ phase = "stack"
    /\ \E r \in {pop(Self)} :
        /\ SetSelf(r.self)
        /\ Account(<<>>, r.ret.vals)
        /\ last' = Call("pop", 0, <<>>, r.ret)
    /\ UNCHANGED <<phase, index, needs_drop, nextId>>

Insert ==
    /\ phase = "stack"
    /\ Fresh(1)
    /\ \E i \in 0..(len + 1), c \in Vals :
        LET x == Value(nextId, c) IN
        \E r \in {insert(Self, i, x, needs_drop)} :
        /\ SetSelf(r.self)
        /\ Account(r.drops, r.ret.vals)
        /\ last' = Call("insert", i, <<x>>, r.ret)
    /\ nextId' = nextId + 1
    /\ UNCHANGED <<phase, index, needs_drop>>

Remove ==
    /\ phase = "stack"
    /\ \E i \in 0..len :
        \E r \in {remove(Self, i)} :
        /\ SetSelf(r.self)
        /\ Account(<<>>, r.ret.vals)
        /\ last' = Call("remove", i, <<>>, r.ret)
    /\ UNCHANGED <<phase, index, needs_drop, nextId>>

SwapRemove ==
    /\ phase = "stack"
    /\ \E i \in 0..len :
        \E r \in swap_remove(Self, i) :
            /\ SetSelf(r.self)
            /\ Account(<<>>, r.ret.vals)
            /\ last' = Call("swap_remove", i, <<>>, r.ret)
            /\ phase' = IF r.ret.kind = "abort" THEN "aborted" ELSE phase
    /\ UNCHANGED <<index, needs_drop, nextId>>

Truncate ==
    /\ phase = "stack"
    /\ \E n \in 0..(len + 1) :
        \E r \in {truncate(Self, n, needs_drop)} :
        /\ SetSelf(r.self)
        /\ Account(r.drops, <<>>)
        /\ last' = Call("truncate", n, <<>>, Unit)
    /\ UNCHANGED <<phase, index, needs_drop, nextId>>

Clear ==
    /\ phase = "stack"
    /\ \E r \in {clear(Self, needs_drop)} :
        /\ SetSelf(r.self)
        /\ Account(r.drops, <<>>)
        /\ last' = Call("clear", 0, <<>>, Unit)
    /\ UNCHANGED <<phase, index, needs_drop, nextId>>

\* resize(new_len, x): x itself is the caller's value, dropped when resize
\* returns; only its clones reach the stack, so x carries no id.
Resize ==
    /\ phase = "stack"
    /\ \E n \in 0..(N + 1), c \in Vals :
        LET x == Value(0, c) IN
        \E r \in {resize(Self, n, x, FreshIds(MaxCap), needs_drop)} :
        /\ Fresh(r.calls)
        /\ SetSelf(r.self)
        /\ Account(r.drops, <<>>)
        /\ nextId' = nextId + r.calls
        /\ last' = Call("resize", n, <<x>>, r.ret)
    /\ UNCHANGED <<phase, index, needs_drop>>

\* resize_with(new_len, f): the closure returns values of any content.
ResizeWith ==
    /\ phase = "stack"
    /\ \E n \in 0..(N + 1), cs \in [1..MaxCap -> Vals] :
        LET f == [k \in 1..MaxCap |-> Value(nextId + k - 1, cs[k])] IN
        \E r \in {resize_with(Self, n, f, needs_drop)} :
        /\ Fresh(r.calls)
        /\ \A k \in (r.calls + 1)..MaxCap : cs[k] = 1
        /\ SetSelf(r.self)
        /\ Account(r.drops, <<>>)
        /\ nextId' = nextId + r.calls
        /\ last' = Call("resize_with", n, SubSeq(f, 1, r.calls), r.ret)
    /\ UNCHANGED <<phase, index, needs_drop>>

\* extend_from_slice(&other): the slice is borrowed, its elements carry no
\* id; each clone made gets a fresh one.
ExtendFromSlice ==
    /\ phase = "stack"
    /\ \E cs \in SeqUpTo(Vals, MaxSlice) :
        LET other == [k \in 1..Len(cs) |-> Value(0, cs[k])] IN
        \E r \in {extend_from_slice(Self, other, FreshIds(Len(cs)), needs_drop)} :
        /\ Fresh(r.calls)
        /\ SetSelf(r.self)
        /\ Account(r.drops, <<>>)
        /\ nextId' = nextId + r.calls
        /\ last' = Call("extend_from_slice", 0, other, r.ret)
    /\ UNCHANGED <<phase, index, needs_drop>>

\* extend_from_iter(iter): the iterator owns the values it has yet to
\* yield; returned in Err, it gives them back to the caller.
ExtendFromIter ==
    /\ phase = "stack"
    /\ \E cs \in SeqUpTo(Vals, MaxSlice) :
        LET iter == [k \in 1..Len(cs) |-> Value(nextId + k - 1, cs[k])] IN
        \E r \in {extend_from_iter(Self, iter)} :
        /\ Fresh(Len(cs))
        /\ SetSelf(r.self)
        /\ Account(<<>>, r.ret.vals)
        /\ nextId' = nextId + Len(cs)
        /\ last' = Call("extend_from_iter", 0, iter, r.ret)
    /\ UNCHANGED <<phase, index, needs_drop>>

\* The stack goes out of scope: Drop for Stack.
DropStack ==
    /\ phase = "stack"
    /\ \E r \in {drop_stack(Self, needs_drop)} :
        /\ SetSelf(r.self)
        /\ Account(r.drops, <<>>)
        /\ last' = Call("drop", 0, <<>>, Unit)
    /\ phase' = "dropped"
    /\ UNCHANGED <<index, needs_drop, nextId>>

\* resize_capacity::<M>(self): the stack is consumed and replaced by the new one.
ResizeCapacity ==
    /\ phase = "stack"
    /\ \E M \in 0..MaxCap :
        \E r \in {resize_capacity(Self, M, needs_drop)} :
        /\ M # N
        /\ SetSelf(r.self)
        /\ Account(r.drops, <<>>)
        /\ last' = Call("resize_capacity", M, as_slice(Self), Unit)
    /\ UNCHANGED <<phase, index, needs_drop, nextId>>

\* ------------------------------------------------------------- IntoIter methods
IntoIter ==
    /\ phase = "stack"
    /\ phase' = "iter"
    /\ index' = into_iter(Self).index
    /\ SetSelf(into_iter(Self).stack)
    /\ last' = Call("into_iter", 0, as_slice(Self), Unit)
    /\ UNCHANGED <<needs_drop, nextId, dropped, handed>>

SetIter(it) == index' = it.index /\ SetSelf(it.stack)

IterNext ==
    /\ phase = "iter"
    /\ \E r \in {next(Iter)} :
        /\ SetIter(r.it)
        /\ Account(<<>>, r.ret.vals)
        /\ last' = Call("next", 0, <<>>, r.ret)
    /\ UNCHANGED <<phase, needs_drop, nextId>>

IterNextBack ==
    /\ phase = "iter"
    /\ \E r \in {next_back(Iter)} :
        /\ SetIter(r.it)
        /\ Account(<<>>, r.ret.vals)
        /\ last' = Call("next_back", 0, <<>>, r.ret)
    /\ UNCHANGED <<phase, needs_drop, nextId>>

\* size_hint() is (remaining, Some(remaining)).
IterSizeHint ==
    /\ phase = "iter"
    /\ \E r \in remaining(Iter) : last' = Call("size_hint", 0, <<>>, r)
    /\ UNCHANGED <<phase, N, len, data, index, needs_drop, nextId, dropped, handed>>

\* count(self) returns remaining() and drops the iterator (also when
\* remaining() panics).
IterCount ==
    /\ phase = "iter"
    /\ \E r \in remaining(Iter) : last' = Call("count", 0, <<>>, r)
    /\ \E d \in {drop_into_iter(Iter, needs_drop)} :
        /\ SetSelf(d.self)
        /\ Account(d.drops, <<>>)
    /\ phase' = "dropped"
    /\ UNCHANGED <<index, needs_drop, nextId>>

\* The iterator goes out of scope.
DropIter ==
    /\ phase = "iter"
    /\ \E d \in {drop_into_iter(Iter, needs_drop)} :
        /\ SetSelf(d.self)
        /\ Account(d.drops, <<>>)
    /\ last' = Call("drop_iter", 0, <<>>, Unit)
    /\ phase' = "dropped"
    /\ UNCHANGED <<index, needs_drop, nextId>>

\* ------------------------------------------------------------- specifications
\* The constructors, the safe methods of Stack and its drop.
NextStack ==
    \/ New
    \/ FromArray
    \/ UsingArray
    \/ Push
    \/ Pop
    \/ Insert
    \/ Remove
    \/ SwapRemove
    \/ Truncate
    \/ Clear
    \/ Resize
    \/ ResizeWith
    \/ ExtendFromSlice
    \/ ExtendFromIter
    \/ DropStack

SpecStack == Init /\ [][NextStack]_vars

\* The whole program: also resize_capacity and the consuming iterator.
Next ==
    \/ NextStack
    \/ ResizeCapacity
    \/ IntoIter
    \/ IterNext
    \/ IterNextBack
    \/ IterSizeHint
    \/ IterCount
    \/ DropIter

Spec == Init /\ [][Next]_vars

\* ------------------------------------------------------------- properties
\* The ids of the values that exist.
Created == 1..(nextId - 1)

\* A value the stack owns: one that exists, was not given to the caller and
\* was not destroyed.
Owned(x) == x.id \in Created /\ handed[x.id] = 0 /\ dropped[x.id] = 0

\* C1: after any sequence of the safe operations, 0 <= len <= N; every slot
\* below len holds a value the stack owns, no value twice; and (for a T with
\* drop glue) no slot at or above len holds an owned value other than the
\* bytes left behind by a move to a slot below len.
C1_CoreInvariant ==
    phase = "stack" =>
        /\ 0 <= len /\ len <= N
        /\ DOMAIN data = 0..(N - 1)
        /\ \A i \in 0..(len - 1) : Owned(data[i])
        /\ \A i, j \in 0..(len - 1) : data[i].id = data[j].id => i = j
        /\ needs_drop =>
             \A i \in len..(N - 1) :
                 Owned(data[i]) => \E j \in 0..(len - 1) : data[j] = data[i]

\* C1 witness: a stack that was full, after a remove that moved the last element
\* down: the slot at len still holds the moved bytes.
C1_Witness ==
    /\ phase = "stack"
    /\ last.op = "remove" /\ last.ret.kind = "value"
    /\ N = 2 /\ len = 1
    /\ data[1] = data[0]
    /\ needs_drop

\* C2: once the stack is dropped, every value that was created (stored or
\* rejected) was either given to the caller exactly once or destroyed exactly
\* once, and not both (T with drop glue).
C2_ExactlyOnce ==
    (phase = "dropped" /\ needs_drop) =>
        \A i \in Created : handed[i] + dropped[i] = 1

\* C2 witness: a dropped stack that destroyed one value and had given
\* another back before.
C2_Witness ==
    /\ phase = "dropped" /\ needs_drop /\ last.op = "drop"
    /\ \E i, j \in Created :
        /\ handed[i] = 1 /\ dropped[i] = 0
        /\ handed[j] = 0 /\ dropped[j] = 1

\* The values a call appended: the slots from the old to the new length.
Appended == [k \in 1..(len' - len) |-> data'[len + k - 1]]

\* The call left the elements below the old length as they were.
PrefixKept == \A i \in 0..(len - 1) : data'[i] = data[i]

\* C3 (as claimed): under every interleaving of next and next_back no value
\* is yielded twice, next yields the element at the front cursor and
\* next_back the last one, and each returns nothing exactly when the front
\* cursor has met the length.
C3_IterYieldsOnce ==
    [][(phase = "iter" /\ last'.op \in {"next", "next_back"}) =>
          /\ \A i \in Ids : handed'[i] <= 1
          /\ (last'.ret.kind = "None") <=> (index = len)
          /\ (last'.op = "next" /\ index < len) => last'.ret = Some(data[index])
          /\ (last'.op = "next_back" /\ index < len)
                => last'.ret = Some(data[len - 1])]_vars

\* C4 (as claimed): dropping the iterator destroys exactly the elements not
\* yet yielded, each once, and none that was yielded (T with drop glue).
C4_IterDropRemaining ==
    [][(phase = "iter" /\ last'.op = "drop_iter" /\ needs_drop) =>
          \A i \in Ids :
              dropped'[i] - dropped[i] =
                  IF handed[i] = 0 /\ \E k \in 0..(len - 1) : data[k].id = i
                  THEN 1 ELSE 0]_vars

\* C5 (as claimed): after resize_capacity each element of the old stack is
\* either live in the new stack and not destroyed, or not in the new stack
\* and destroyed exactly once (T with drop glue).
C5_ResizeCapacityOwnership ==
    [][(last'.op = "resize_capacity" /\ needs_drop) =>
          \A k \in 1..len :
              LET i == data[k - 1].id
                  moved == \E j \in 0..(len' - 1) : data'[j].id = i
              IN dropped'[i] - dropped[i] = IF moved THEN 0 ELSE 1]_vars

\* C6 (as claimed): insert fails with an out-of-range condition only when
\* index > len; for index = len on a stack that is not full it appends the
\* value, increments len and returns nothing.  Stated for the stacks the
\* claim spells out, those that are not full.
C6_InsertAtEnd ==
    [][(last'.op = "insert" /\ len < N) =>
          /\ last'.ret.kind = "panic" => last'.index > len
          /\ (last'.index = len /\ len < N) =>
                /\ last'.ret = None
                /\ len' = len + 1
                /\ data'[len] = last'.arg[1]
                /\ PrefixKept]_vars

\* C7 (as claimed): extend_from_iter on a stack with free space f and an
\* iterator of m elements returns Ok if and only if m <= f, all m elements
\* appended in order; and Err only when m > f, after appending exactly the
\* first f elements.
C7_ExtendFromIterContract ==
    [][last'.op = "extend_from_iter" =>
          LET m == Len(last'.arg)
              f == N - len
          IN /\ (last'.ret.kind = "Ok") <=> (m <= f)
             /\ m <= f => Appended = last'.arg
             /\ m > f => Appended = SubSeq(last'.arg, 1, f)]_vars

\* C8: extend_from_slice on a stack with free space f and a slice of length
\* m: if m <= f it returns Ok, len grows by m and the new suffix equals the
\* slice; if m > f exactly the first f elements are appended, the stack is
\* full and the returned remainder is the slice's tail of length m - f; the
\* elements that were in the stack are unchanged.
C8_ExtendFromSlice ==
    [][last'.op = "extend_from_slice" =>
          LET m == Len(last'.arg)
              f == N - len
          IN /\ N' = N
             /\ PrefixKept
             /\ m <= f =>
                   /\ last'.ret = Ok
                   /\ len' = len + m
                   /\ Contents(Appended) = Contents(last'.arg)
             /\ m > f =>
                   /\ last'.ret.kind = "Err"
                   /\ len' = N
                   /\ len' - len = f
                   /\ Contents(Appended) = Contents(SubSeq(last'.arg, 1, f))
                   /\ Len(last'.ret.vals) = m - f
                   /\ last'.ret.vals = SubSeq(last'.arg, f + 1, m)]_vars

\* C8 witness: a slice of two elements met one free slot: one element was
\* appended, the stack is full and the other element came back.
C8_Witness ==
    /\ last.op = "extend_from_slice" /\ last.ret.kind = "Err"
    /\ Len(last.arg) = 2 /\ last.ret.vals = <<last.arg[2]>>
    /\ len = N /\ N = 2
    /\ data[0].v # last.arg[1].v /\ data[1].v = last.arg[1].v

\* C9: push on a full stack returns the same value in Err and leaves len = N
\* and every element unchanged; push on a stack that is not full stores the
\* value at index len, increments len and leaves the earlier elements unchanged.
C9_Push ==
    [][last'.op = "push" =>
          /\ N' = N
          /\ len = N =>
                /\ last'.ret = Err(last'.arg)
                /\ len' = N
                /\ data' = data
          /\ len < N =>
                /\ last'.ret = Ok
                /\ data'[len] = last'.arg[1]
                /\ len' = len + 1
                /\ PrefixKept]_vars

\* C9 witness: a push that a full stack of two handed back.
C9_Witness ==
    /\ phase = "stack" /\ last.op = "push"
    /\ last.ret = Err(last.arg) /\ Len(last.arg) = 1
    /\ len = N /\ N = 2

\* C10 (as claimed): at every step of the iterator the front cursor does not
\* exceed the length, and the count size_hint and count report is
\* len - index, without underflow.
C10_IterRemainingExact ==
    /\ phase = "iter" => index <= len
    /\ last.op \in {"size_hint", "count"} =>
          /\ last.ret.kind = "usize"
          /\ last.op = "size_hint" => last.ret.n = len - index

\* The elements of the stack before and after a step, as sequences.
Old == as_slice(Self)

NewSeq == [k \in 1..len' |-> data'[k - 1]]

\* C11: insert(index, value) with index < len yields old[0..index] ++ [value]
\* ++ old[index..] cut to N elements: on a stack that is not full len grows
\* by one and nothing is returned; on a full stack len stays N and the
\* previous last element is returned.
C11_InsertShifts ==
    [][(last'.op = "insert" /\ last'.index < len) =>
          LET i == last'.index
              whole == SubSeq(Old, 1, i) \o last'.arg \o SubSeq(Old, i + 1, len)
          IN /\ N' = N
             /\ NewSeq = SubSeq(whole, 1, Min(len + 1, N))
             /\ len < N => (len' = len + 1 /\ last'.ret = None)
             /\ len = N => (len' = N /\ last'.ret = Some(Old[len]))]_vars

\* C11 witness: an insert at the front of a full stack of two, which put the
\* new value first, moved the old first element up and returned the old last.
C11_Witness ==
    /\ phase = "stack" /\ last.op = "insert" /\ last.index = 0
    /\ last.ret.kind = "Some"
    /\ N = 2 /\ len = 2
    /\ data[0] = last.arg[1]
    /\ data[1].id \notin {data[0].id, last.ret.vals[1].id}
    /\ handed[last.ret.vals[1].id] = 1

\* C12: remove(index) with index < len returns the element at index,
\* decrements len and leaves old[0..index] ++ old[index+1..]; with
\* index >= len it fails with an out-of-range panic.
C12_Remove ==
    [][last'.op = "remove" =>
          LET i == last'.index IN
          /\ i < len =>
                /\ last'.ret = Ret(data[i])
                /\ len' = len - 1
                /\ N' = N
                /\ NewSeq = SubSeq(Old, 1, i) \o SubSeq(Old, i + 2, len)
          /\ i >= len => last'.ret = Panic]_vars

\* C12 witness: remove(0) on a stack of two returned the first element and
\* left the second one first.
C12_Witness ==
    /\ phase = "stack" /\ last.op = "remove" /\ last.index = 0
    /\ last.ret.kind = "value"
    /\ len = 1 /\ N = 2
    /\ data[0].id # last.ret.vals[1].id
    /\ handed[data[0].id] = 0 /\ handed[last.ret.vals[1].id] = 1

\* The step destroyed exactly the values of the sequence xs, each once, and
\* gave none of them to the caller (T with drop glue).
DestroyedExactly(xs) ==
    needs_drop =>
        /\ \A i \in Ids :
              dropped'[i] = dropped[i] + (IF \E k \in 1..Len(xs) : xs[k].id = i THEN 1 ELSE 0)
        /\ handed' = handed

\* C13: resize(new_len, x) and resize_with(new_len, f): new_len > N panics
\* with len and the slots unchanged; new_len < len acts as truncate(new_len);
\* len <= new_len <= N gives len = new_len, the old elements unchanged and
\* the fill value (a clone of x, or what f returned) at every index from
\* the old len to new_len.
C13_Resize ==
    [][last'.op \in {"resize", "resize_with"} =>
          LET n == last'.index IN
          /\ N' = N
          /\ n > N => (last'.ret = Panic /\ len' = len /\ data' = data /\ DestroyedExactly(<<>>))
          /\ n < len =>
                /\ last'.ret = Unit
                /\ len' = n
                /\ NewSeq = SubSeq(Old, 1, n)
                /\ DestroyedExactly(SubSeq(Old, n + 1, len))
          /\ (len <= n /\ n <= N) =>
                /\ last'.ret = Unit
                /\ len' = n
                /\ PrefixKept
                /\ last'.op = "resize" =>
                      \A k \in 1..(n - len) : Appended[k].v = last'.arg[1].v
                /\ last'.op = "resize_with" => Appended = last'.arg
                /\ DestroyedExactly(<<>>)]_vars

\* C13 witness: resize grew a stack of one element to two; the old element
\* is in place and the new one has the content of the fill value.
C13_Witness ==
    /\ phase = "stack" /\ last.op = "resize" /\ last.index = 2
    /\ last.ret = Unit
    /\ N = 2 /\ len = 2
    /\ data[1].id = nextId - 1
    /\ data[1].v = last.arg[1].v /\ data[0].v # last.arg[1].v

\* C14 (as claimed): resize_capacity::<M> on a stack holding the sequence s
\* of length k returns a stack of capacity M whose contents are the first
\* min(k, M) elements of s in order: the slots below the new len hold those
\* values, and they are values the new stack owns (not destroyed ones).
C14_ResizeCapacityContents ==
    [][last'.op = "resize_capacity" =>
          LET M == last'.index
              k == len
          IN /\ N' = M
             /\ len' = Min(k, M)
             /\ NewSeq = SubSeq(Old, 1, Min(k, M))
             /\ \A j \in 1..len' :
                   handed'[NewSeq[j].id] = 0 /\ dropped'[NewSeq[j].id] = 0]_vars

\* pop() right after push(x) on the stack s: the value came back, and the
\* length and the elements are those of s.
PushPopRestores(s, x) ==
    LET q == pop(push(s, x).self) IN
    /\ push(s, x).ret = Ok
    /\ q.ret = Some(x)
    /\ q.self.len = s.len
    /\ as_slice(q.self) = as_slice(s)

\* C15: for every value v and every reachable stack that is not full, pop()
\* right after push(v) returns v and restores the length and the sequence of
\* elements; pop() on an empty stack returns nothing and leaves len = 0.
C15_PushPopDuality ==
    /\ [](phase = "stack" =>
            \A c \in Vals : ~is_full(Self) => PushPopRestores(Self, Value(nextId, c)))
    /\ [][last'.op = "pop" =>
            /\ (last.op = "push" /\ last.ret = Ok) =>
                  /\ last'.ret = Some(last.arg[1])
                  /\ len' = len - 1
                  /\ NewSeq = SubSeq(Old, 1, len - 1)
            /\ len = 0 => (last'.ret = None /\ len' = 0)]_vars

\* C15 witness: a pop that returned the value created last (the one a push
\* had just stored above another element) and left that other element.
C15_Witness ==
    /\ phase = "stack" /\ last.op = "pop"
    /\ last.ret.kind = "Some" /\ last.ret.vals[1].id = nextId - 1
    /\ handed[nextId - 1] = 1
    /\ len = 1 /\ N = 2 /\ data[1] = last.ret.vals[1] /\ data[0].id = 1

\* remove(i) right after insert(i, x) on the stack s: the value came back,
\* and the length and the elements are those of s.
InsertRemoveRestores(s, i, x) ==
    LET a == insert(s, i, x, needs_drop)
        r == remove(a.self, i)
    IN a.ret # Panic =>
          /\ a.ret = None
          /\ r.ret = Ret(x)
          /\ r.self.len = s.len
          /\ as_slice(r.self) = as_slice(s)

\* C16: for every reachable stack that is not full and every index at which
\* insert(index, v) does not fail, remove(index) right after insert(index, v)
\* returns v and restores the prior sequence and the prior length.
C16_InsertRemoveInverse ==
    /\ [](phase = "stack" =>
            \A i \in 0..(len + 1), c \in Vals :
                ~is_full(Self) => InsertRemoveRestores(Self, i, Value(nextId, c)))
    /\ [][(/\ last'.op = "remove" /\ last.op = "insert"
           /\ last.ret = None /\ last'.index = last.index) =>
              /\ last'.ret = Ret(last.arg[1])
              /\ len' = len - 1
              /\ NewSeq = SubSeq(Old, 1, last.index) \o SubSeq(Old, last.index + 2, len)]_vars

\* C16 witness: remove(0) gave back the value that insert(0, v) had just put
\* in front of another element, and that element is again the only one.
C16_Witness ==
    /\ phase = "stack" /\ last.op = "remove" /\ last.index = 0
    /\ last.ret.kind = "value" /\ last.ret.vals[1].id = nextId - 1
    /\ nextId = 3 /\ handed[2] = 1 /\ handed[1] = 0
    /\ N = 2 /\ len = 1 /\ data[0].id = 1 /\ data[1].id = 1

\* C17: truncate(k) with k >= len leaves the length and the elements as they
\* are and destroys nothing; with k < len it destroys exactly the elements at
\* indices >= k, each once, makes the length k and leaves the elements at
\* indices < k unchanged.
C17_Truncate ==
    [][last'.op = "truncate" =>
          LET k == last'.index IN
          /\ N' = N /\ last'.ret = Unit
          /\ k >= len => (len' = len /\ data' = data /\ DestroyedExactly(<<>>))
          /\ k < len => /\ len' = k
                        /\ NewSeq = SubSeq(Old, 1, k)
                        /\ DestroyedExactly(SubSeq(Old, k + 1, len))]_vars

\* C17 witness: truncate(1) of a stack of two droppable elements destroyed
\* the second and kept the first.
C17_Witness ==
    /\ phase = "stack" /\ last.op = "truncate" /\ last.index = 1
    /\ needs_drop /\ N = 2 /\ len = 1
    /\ data[0].id # data[1].id
    /\ dropped[data[0].id] = 0 /\ dropped[data[1].id] = 1 /\ handed[data[1].id] = 0

\* C18: using_array(array, len) on an array of N values panics when len > N
\* and builds nothing; when len <= N the stack has capacity N, length len and
\* the first len array values in order, all live, and each of the other
\* N - len array values has been destroyed exactly once.
C18_UsingArray ==
    last.op = "using_array" =>
        LET array == last.arg
            n == last.index
        IN /\ n > Len(array) => (last.ret = Panic /\ phase = "start")
           /\ n <= Len(array) =>
                 /\ last.ret = Unit /\ phase = "stack"
                 /\ N = Len(array) /\ len = n
                 /\ as_slice(Self) = SubSeq(array, 1, n)
                 /\ \A k \in 1..Len(array) :
                       /\ handed[array[k].id] = 0
                       /\ needs_drop =>
                             dropped[array[k].id] = (IF k > n THEN 1 ELSE 0)

\* C18 witness: using_array([a, b], 1) with droppable values kept a and
\* destroyed b.
C18_Witness ==
    /\ phase = "stack" /\ last.op = "using_array" /\ last.index = 1
    /\ Len(last.arg) = 2 /\ needs_drop
    /\ N = 2 /\ len = 1 /\ data[0] = last.arg[1]
    /\ dropped[last.arg[1].id] = 0 /\ dropped[last.arg[2].id] = 1

\* C19: swap_remove(index) with index < len returns the element that was at
\* index, decrements the length, puts the previously last element at index
\* (when index was not the last position) and leaves every other element in
\* place; with index >= len it panics.
C19_SwapRemove ==
    [][last'.op = "swap_remove" =>
          LET i == last'.index IN
          /\ i < len =>
                /\ last'.ret = Ret(data[i])
                /\ len' = len - 1 /\ N' = N
                /\ NewSeq = [k \in 1..(len - 1) |->
                                IF k = i + 1 THEN Old[len] ELSE Old[k]]
          /\ i >= len => last'.ret = Panic]_vars

\* C20: when swap_remove, remove or insert panics on an out-of-range index,
\* the capacity, the length and every slot of the stack are as they were
\* before the call, no element was destroyed or handed out, and the core
\* invariant holds afterwards.
C20_AllOrNothing ==
    [][(last'.op \in {"swap_remove", "remove", "insert"} /\ last'.ret = Panic) =>
          /\ last'.index >= len
          /\ N' = N /\ len' = len /\ data' = data
          /\ NewSeq = Old
          /\ handed' = handed
          /\ \A k \in 1..len : dropped'[Old[k].id] = dropped[Old[k].id]
          /\ C1_CoreInvariant']_vars

\* C20 witness: remove(1) on a stack of one element panicked and the element
\* is still there, live.
C20_Witness ==
    /\ phase = "stack" /\ last.op = "remove" /\ last.ret = Panic
    /\ last.index = 1 /\ len = 1 /\ N = 2
    /\ dropped[data[0].id] = 0 /\ handed[data[0].id] = 0

\* C21: extend_from_iter takes no element from the sequence that it does not
\* store: the elements appended to the stack followed by the elements the
\* returned (or exhausted) iterator still yields are the original sequence in
\* order; nothing is destroyed, the old elements stay and the remainder is
\* back with the caller.
C21_ExtendFromIterKeepsAll ==
    [][last'.op = "extend_from_iter" =>
          /\ last'.ret.kind \in {"Ok", "Err"}
          /\ last'.ret.kind = "Ok" => last'.ret.vals = <<>>
          /\ Appended \o last'.ret.vals = last'.arg
          /\ N' = N /\ PrefixKept
          /\ dropped' = dropped
          /\ \A k \in 1..Len(last'.arg) :
                handed'[last'.arg[k].id] = (IF k > len' - len THEN 1 ELSE 0)]_vars

\* C21 witness: a two-element sequence given to a stack with one free slot:
\* the first element is stored and the second comes back in the iterator.
C21_Witness ==
    /\ phase = "stack" /\ last.op = "extend_from_iter"
    /\ Len(last.arg) = 2 /\ last.ret = Err(<<last.arg[2]>>)
    /\ N = 2 /\ len = 2 /\ data[1] = last.arg[1] /\ data[0].id = 1
    /\ handed[last.arg[2].id] = 1 /\ handed[last.arg[1].id] = 0

\* push(x) right after clear() on the stack s: the cleared stack is empty,
\* and for N > 0 the push succeeds and the stack is the one-element
\* sequence <<x>>.
ClearThenPush(s, x) ==
    LET c == clear(s, needs_drop).self
        p == push(c, x)
    IN /\ c.len = 0 /\ is_empty(c) /\ c.N = s.N
       /\ s.N > 0 => (p.ret = Ok /\ as_slice(p.self) = <<x>>)

\* C22: clear() on a stack of any length destroys every live element exactly
\* once and sets the length to 0; the stack is then empty and reusable: a
\* following push(v) succeeds (for N > 0) and gives the one-element sequence
\* <<v>>, with none of the cleared elements in it.
C22_Clear ==
    /\ [](phase = "stack" => \A c \in Vals : ClearThenPush(Self, Value(nextId, c)))
    /\ [][last'.op = "clear" =>
            /\ len' = 0 /\ N' = N /\ last'.ret = Unit
            /\ DestroyedExactly(Old)
            /\ needs_drop => \A k \in 1..len : dropped[Old[k].id] = 0
                                               /\ dropped'[Old[k].id] = 1]_vars
    /\ [][(last.op = "clear" /\ last'.op = "push" /\ N > 0) =>
            /\ last'.ret = Ok
            /\ len' = 1
            /\ NewSeq = last'.arg
            /\ dropped'[NewSeq[1].id] = 0]_vars

\* C22 witness: clear() of a stack of two droppable elements: both are
\* destroyed once and the stack is empty.
C22_Witness ==
    /\ phase = "stack" /\ last.op = "clear" /\ needs_drop
    /\ N = 2 /\ len = 0 /\ data[0].id # data[1].id
    /\ dropped[data[0].id] = 1 /\ dropped[data[1].id] = 1
    /\ handed[data[0].id] = 0 /\ handed[data[1].id] = 0

=============================================================================
